---- MODULE Spec2Model ----
(***************************************************************************)
(* Model of src/core/poster.py: extraction of a poster URL from a PT-Gen   *)
(* response, download of the poster to a temp file, upload to the picture  *)
(* bed, unwrapping of the BBCode markup and cleanup of the temp file.      *)
(*                                                                         *)
(* Python strings are TLA+ strings (TLC evaluates Len, SubSeq and \o on    *)
(* them).  Python values of a response mapping are tagged records, so that *)
(* None, a string and a dict stay distinguishable.                         *)
(***************************************************************************)
EXTENDS Integers, Sequences, FiniteSets, TLC

VARIABLES
    pc,               \* per run: position inside process_poster / download_poster
    entry,            \* per run: which public function the caller entered
    poster_url,       \* per run: the str object passed as poster_url
    temp_file_path,   \* per run: local temp_file_path (None before it is resolved)
    requested,        \* per run: number of requests.get calls issued by this run
    download_result,  \* per run: what download_poster returned
    uploads,          \* per run: number of upload_picture calls made by this run
    upload_result,    \* per run: the string upload_picture returned (None before)
    result,           \* per run: the value process_poster is about to return
    warned,           \* per run: the "Failed to delete" warning was printed
    files,            \* filesystem: paths of the files that exist
    dirs,             \* filesystem: directories that exist
    pt_gen_data,      \* the response mapping handed to get_poster_url_from_data
    extracted         \* outcome of get_poster_url_from_data(pt_gen_data)

vars == <<pc, entry, poster_url, temp_file_path, requested, download_result,
          uploads, upload_result, result, warned, files, dirs, pt_gen_data, extracted>>

(***************************************************************************)
(* Bounds                                                                  *)
(***************************************************************************)
\* largest number of candidate keys present at one level of a response mapping
MaxPresent == 2

(***************************************************************************)
(* Python strings                                                          *)
(***************************************************************************)
\* s.startswith(p)
StartsWith(s, p) == Len(s) >= Len(p) /\ SubSeq(s, 1, Len(p)) = p

\* s.endswith(p)
EndsWith(s, p) == Len(s) >= Len(p) /\ SubSeq(s, Len(s) - Len(p) + 1, Len(s)) = p

\* sub in s   (substring test of str.__contains__)
StrContains(s, sub) ==
    \E i \in 1..(Len(s) - Len(sub) + 1) : SubSeq(s, i, i + Len(sub) - 1) = sub

\* s[a:-b] for a, b > 0: characters a+1 .. Len(s)-b, empty when that range is empty
Slice(s, a, b) == IF Len(s) - b < a + 1 THEN "" ELSE SubSeq(s, a + 1, Len(s) - b)

(***************************************************************************)
(* Values of a response mapping                                            *)
(***************************************************************************)
PyNone == [t |-> "none"]
PyStr(s) == [t |-> "str", s |-> s]
PyDict(d) == [t |-> "dict", d |-> d]

\* bool(v)
Truthy(v) ==
    CASE v.t = "none" -> FALSE
      [] v.t = "str"  -> v.s # ""
      [] v.t = "dict" -> DOMAIN v.d # {}

possible_fields == <<"poster", "img", "image", "cover", "posterUrl">>

Fields == {possible_fields[i] : i \in 1..Len(possible_fields)}

UrlA == "http://a/b.jpg"
UrlB == "http://c/d.jpg"

\* values a candidate key may hold: empty (falsy) or a URL
FieldVals == {PyStr(""), PyStr(UrlA), PyStr(UrlB)}

\* dicts over the candidate keys with at most MaxPresent keys present
FieldDicts ==
    UNION {[S -> FieldVals] : S \in {T \in SUBSET Fields : Cardinality(T) <= MaxPresent}}

\* what may sit under "data": a dict, None, or a string (no schema guarantee)
DataVals == {PyDict(d) : d \in FieldDicts} \cup {PyNone, PyStr(""), PyStr("ok"), PyStr("no img")}

Mappings == FieldDicts \cup {top @@ ("data" :> v) : top \in FieldDicts, v \in DataVals}

(***************************************************************************)
(* get_poster_url_from_data                                                *)
(***************************************************************************)
Returned(v) == [kind |-> "value", val |-> v]
Raised(e) == [kind |-> "raise", val |-> e]

\* variant of TopMatch: the scan runs from the last candidate key to the first
RECURSIVE TopMatchLastWins(_, _)
TopMatchLastWins(data, i) ==
    LET k == Len(possible_fields) + 1 - i IN
    IF i > Len(possible_fields) THEN 0
    ELSE IF possible_fields[k] \in DOMAIN data /\ Truthy(data[possible_fields[k]])
         THEN k
         ELSE TopMatchLastWins(data, i + 1)

\* first loop (lines 27-31): index of the first candidate key that is present
\* and truthy at top level, 0 if none
RECURSIVE TopMatch(_, _)
TopMatch(data, i) ==
    IF i > Len(possible_fields) THEN 0
    ELSE IF possible_fields[i] \in DOMAIN data /\ Truthy(data[possible_fields[i]])
         THEN i
         ELSE TopMatch(data, i + 1)

\* second loop (lines 35-39) over nested = data['data']
RECURSIVE NestedScan(_, _)
NestedScan(nested, i) ==
    IF i > Len(possible_fields) THEN Returned("")
    ELSE LET field == possible_fields[i] IN
         CASE nested.t = "none" -> Raised("TypeError")      \* field in None
           [] nested.t = "str" ->
                IF StrContains(nested.s, field)
                THEN Raised("TypeError")                      \* 'abc'['img']
                ELSE NestedScan(nested, i + 1)
           [] nested.t = "dict" ->
                IF field \in DOMAIN nested.d /\ Truthy(nested.d[field])
                THEN Returned(nested.d[field].s)
                ELSE NestedScan(nested, i + 1)

get_poster_url_from_data(data) ==
    LET i == TopMatch(data, 1) IN
    IF i # 0 THEN Returned(data[possible_fields[i]].s)
    ELSE IF "data" \in DOMAIN data THEN NestedScan(data["data"], 1)
    ELSE Returned("")

NotExtracted == [kind |-> "none", val |-> ""]

(***************************************************************************)
(* Results, inputs and the environment of the pipeline                     *)
(***************************************************************************)
Runs == {"A", "B"}

\* a (bool, str) tuple, the absence of a value, and an exception leaving a function
Pair(ok, msg) == [kind |-> "pair", ok |-> ok, msg |-> msg]
NoResult == [kind |-> "none", ok |-> FALSE, msg |-> ""]
RaisedOut(e) == [kind |-> "raise", ok |-> FALSE, msg |-> e]

\* Python None as the value of an Optional[str]; a str is PyStr(s)
None == PyNone

\* str objects a caller may pass as poster_url; id is id(poster_url)
UrlObjects == {[id |-> 1, val |-> ""], [id |-> 2, val |-> UrlA], [id |-> 3, val |-> UrlB]}
NoObject == [id |-> 0, val |-> ""]

\* tempfile.gettempdir() and the temp_dir arguments a caller may pass
SysTempDir == "/tmp"
TempDirArgs == {None, PyStr("/data/tmp"), PyStr("/data/tmp/"), PyStr("")}

\* os.path.join(a, b) of posixpath: an absolute b replaces a, and a separator
\* is inserted only after a non-empty a that does not end with one
PathJoin(a, b) ==
    IF StartsWith(b, "/") THEN b
    ELSE IF a = "" \/ EndsWith(a, "/") THEN a \o b
    ELSE a \o "/" \o b

\* s.rstrip('/')
RECURSIVE RStripSlash(_)
RStripSlash(s) ==
    IF s # "" /\ SubSeq(s, Len(s), Len(s)) = "/"
    THEN RStripSlash(SubSeq(s, 1, Len(s) - 1))
    ELSE s

\* os.path.dirname(p) of posixpath: head = p[:p.rfind('/') + 1], and the
\* trailing separators of head are stripped unless head consists of them only
Dirname(p) ==
    LET slashes == {i \in 1..Len(p) : SubSeq(p, i, i) = "/"}
        head == IF slashes = {} THEN ""
                ELSE SubSeq(p, 1, CHOOSE i \in slashes : \A j \in slashes : j <= i)
    IN IF RStripSlash(head) = "" THEN head ELSE RStripSlash(head)

\* the directories os.makedirs(d, exist_ok=True) makes sure of: d and every
\* ancestor of d below the root (or below the working directory)
RECURSIVE MakedirsChain(_)
MakedirsChain(d) ==
    IF d = "" \/ RStripSlash(d) = "" THEN {}
    ELSE {RStripSlash(d)} \cup MakedirsChain(Dirname(RStripSlash(d)))

\* lines 138-142: the temp file path of a call
TempFilePath(temp_dir, url) ==
    PyStr(PathJoin(IF temp_dir = None THEN SysTempDir ELSE temp_dir.s,
                   "poster_" \o ToString(url.id) \o ".jpg"))

\* answers of the poster host to requests.get
HttpOk == 200
HttpStatuses == {HttpOk, 404}
HttpErrors == {"Timeout", "RequestException", "IOError", "Exception"}

\* ways in which streaming the response into the open file may end
StreamOutcomes == {"ok", "IOError", "RequestException", "Exception"}

\* answers of upload_picture: the strings it may return on success
UploadStrings ==
    {"[img]http://cdn/x.jpg[/img]", "http://cdn/x.jpg", "[img]http://cdn/x.jpg",
     "http://cdn/x.jpg[/img]", "[img][/img]", "", "[img]", "[/img]",
     "[IMG]x[/IMG]", "[img][img]x[/img][/img]", " [img]x[/img]"}

ImgOpen == "[img]"
ImgClose == "[/img]"
ImgOpenLen == 5
ImgCloseLen == 6

\* variant of Unwrap: the closing tag is cut one character short
UnwrapShortCut(uploaded) ==
    IF StartsWith(uploaded, ImgOpen) /\ EndsWith(uploaded, ImgClose)
    THEN Slice(uploaded, ImgOpenLen, ImgCloseLen - 1)
    ELSE uploaded

\* lines 169-172: the URL inside the BBCode markup
Unwrap(uploaded) ==
    IF StartsWith(uploaded, ImgOpen) /\ EndsWith(uploaded, ImgClose)
    THEN Slice(uploaded, ImgOpenLen, ImgCloseLen)
    ELSE uploaded

\* every outcome get_poster_url_from_data has on a response mapping
ExtractOutcomes == {get_poster_url_from_data(m) : m \in Mappings}

(***************************************************************************)
(* Initial state                                                           *)
(***************************************************************************)
InitRuns ==
    /\ pc = [r \in Runs |-> "idle"]
    /\ entry = [r \in Runs |-> "none"]
    /\ poster_url = [r \in Runs |-> NoObject]
    /\ temp_file_path = [r \in Runs |-> None]
    /\ requested = [r \in Runs |-> 0]
    /\ download_result = [r \in Runs |-> NoResult]
    /\ uploads = [r \in Runs |-> 0]
    /\ upload_result = [r \in Runs |-> None]
    /\ result = [r \in Runs |-> NoResult]
    /\ warned = [r \in Runs |-> FALSE]
    /\ files = {}
    /\ dirs = MakedirsChain(SysTempDir)

Init ==
    /\ InitRuns
    /\ pt_gen_data = <<>>
    /\ extracted = NotExtracted

InitExtract ==
    /\ InitRuns
    /\ pt_gen_data \in Mappings
    /\ extracted = NotExtracted

fsVars == <<files, dirs>>
extractVars == <<pt_gen_data, extracted>>
runVars == <<pc, entry, poster_url, temp_file_path, requested, download_result,
             uploads, upload_result, result, warned>>

(***************************************************************************)
(* Callers                                                                 *)
(***************************************************************************)
\* process_poster lines 134-149: resolve the temp path, enter download_poster
Enter(r, e, url, temp_dir) ==
    /\ pc' = [pc EXCEPT ![r] = "dl_check"]
    /\ entry' = [entry EXCEPT ![r] = e]
    /\ poster_url' = [poster_url EXCEPT ![r] = url]
    /\ temp_file_path' = [temp_file_path EXCEPT ![r] = TempFilePath(temp_dir, url)]
    /\ UNCHANGED <<requested, download_result, uploads, upload_result, result, warned>>

\* the wrapper returns (or raises) without entering process_poster
ReturnEarly(r, res) ==
    /\ pc' = [pc EXCEPT ![r] = "returned"]
    /\ entry' = [entry EXCEPT ![r] = "get_poster_from_pt_gen_response"]
    /\ result' = [result EXCEPT ![r] = res]
    /\ UNCHANGED <<poster_url, temp_file_path, requested, download_result,
                   uploads, upload_result, warned>>

\* a caller invokes process_poster(url, ..., temp_dir)
CallProcessPoster(r) ==
    /\ pc[r] = "idle"
    /\ \E url \in UrlObjects, temp_dir \in TempDirArgs :
          Enter(r, "process_poster", url, temp_dir)
    /\ UNCHANGED <<fsVars, extractVars>>

\* a caller invokes get_poster_from_pt_gen_response(m, ..., temp_dir), lines 208-213
CallGetPosterFromPtGenResponse(r) ==
    /\ pc[r] = "idle"
    /\ \E out \in ExtractOutcomes, temp_dir \in TempDirArgs :
          CASE out.kind = "raise" -> ReturnEarly(r, RaisedOut(out.val))
            [] out.kind = "value" /\ out.val = "" ->
                 ReturnEarly(r, Pair(FALSE, "No poster URL found in PT-Gen response"))
            [] OTHER ->
                 \E url \in UrlObjects :
                    /\ url.val = out.val
                    /\ Enter(r, "get_poster_from_pt_gen_response", url, temp_dir)
    /\ UNCHANGED <<fsVars, extractVars>>

\* the caller takes the result; the locals of the call are gone
Reset(r) ==
    /\ pc[r] = "returned"
    /\ pc' = [pc EXCEPT ![r] = "idle"]
    /\ entry' = [entry EXCEPT ![r] = "none"]
    /\ poster_url' = [poster_url EXCEPT ![r] = NoObject]
    /\ temp_file_path' = [temp_file_path EXCEPT ![r] = None]
    /\ requested' = [requested EXCEPT ![r] = 0]
    /\ download_result' = [download_result EXCEPT ![r] = NoResult]
    /\ uploads' = [uploads EXCEPT ![r] = 0]
    /\ upload_result' = [upload_result EXCEPT ![r] = None]
    /\ result' = [result EXCEPT ![r] = NoResult]
    /\ warned' = [warned EXCEPT ![r] = FALSE]
    /\ UNCHANGED <<fsVars, extractVars>>

(***************************************************************************)
(* download_poster                                                         *)
(***************************************************************************)
\* download_poster returns res to process_poster
DownloadReturns(r, res) ==
    /\ download_result' = [download_result EXCEPT ![r] = res]
    /\ pc' = [pc EXCEPT ![r] = "dl_done"]

\* variant of DownloadCheckUrl: the request is issued before the URL is looked at
DownloadCheckUrlLate(r) ==
    /\ pc[r] = "dl_check"
    /\ IF poster_url[r].val = ""
       THEN /\ DownloadReturns(r, Pair(FALSE, "Poster URL is empty"))
            /\ requested' = [requested EXCEPT ![r] = @ + 1]
       ELSE /\ pc' = [pc EXCEPT ![r] = "http_get"]
            /\ UNCHANGED <<download_result, requested>>
    /\ UNCHANGED <<entry, poster_url, temp_file_path, uploads,
                   upload_result, result, warned, fsVars, extractVars>>

\* lines 57-58: the empty URL is refused before anything else happens
DownloadCheckUrl(r) ==
    /\ pc[r] = "dl_check"
    /\ IF poster_url[r].val = ""
       THEN DownloadReturns(r, Pair(FALSE, "Poster URL is empty"))
       ELSE /\ pc' = [pc EXCEPT ![r] = "http_get"]
            /\ UNCHANGED download_result
    /\ UNCHANGED <<entry, poster_url, temp_file_path, requested, uploads,
                   upload_result, result, warned, fsVars, extractVars>>

\* lines 76-79 and the handlers of lines 93-107
HttpGet(r) ==
    /\ pc[r] = "http_get"
    /\ requested' = [requested EXCEPT ![r] = @ + 1]
    /\ \/ \E status \in HttpStatuses :
            IF status # HttpOk
            THEN DownloadReturns(r, Pair(FALSE,
                    "Failed to download poster, status code: " \o ToString(status)))
            ELSE /\ pc' = [pc EXCEPT ![r] = "makedirs"]
                 /\ UNCHANGED download_result
       \/ \E e \in HttpErrors :
            DownloadReturns(r,
              CASE e = "Timeout" -> Pair(FALSE, "Poster download timeout (30s)")
                [] e = "RequestException" ->
                     Pair(FALSE, "Poster download request error: " \o "connection reset")
                [] e = "IOError" ->
                     Pair(FALSE, "Failed to save poster file: " \o "Permission denied")
                [] OTHER -> Pair(FALSE, "Unexpected error: " \o "boom"))
    /\ UNCHANGED <<entry, poster_url, temp_file_path, uploads, upload_result,
                   result, warned, fsVars, extractVars>>

\* line 82 and the handler of lines 101-103: os.makedirs makes the missing
\* directories of the chain one mkdir call at a time, the outermost first;
\* each call may raise OSError, and a directory that is there already is
\* accepted (exist_ok=True)
MakeDirs(r) ==
    /\ pc[r] = "makedirs"
    /\ LET d == Dirname(temp_file_path[r].s)
           missing == MakedirsChain(d) \ dirs
       IN
       \/ /\ d = ""
          /\ DownloadReturns(r, Pair(FALSE, "Failed to save poster file: "
                \o "[Errno 2] No such file or directory: ''"))
          /\ UNCHANGED dirs
       \/ /\ d # "" /\ missing = {}
          /\ pc' = [pc EXCEPT ![r] = "open"]
          /\ UNCHANGED <<dirs, download_result>>
       \/ /\ d # "" /\ missing # {}
          /\ LET x == CHOOSE y \in missing : \A z \in missing : Len(y) <= Len(z) IN
             \/ /\ dirs' = dirs \cup {x}
                /\ pc' = [pc EXCEPT ![r] = IF missing = {x} THEN "open" ELSE "makedirs"]
                /\ UNCHANGED download_result
             \/ /\ DownloadReturns(r, Pair(FALSE,
                      "Failed to save poster file: " \o "Permission denied"))
                /\ UNCHANGED dirs
    /\ UNCHANGED <<entry, poster_url, temp_file_path, requested, uploads,
                   upload_result, result, warned, files, extractVars>>

\* line 85 and the handler of lines 101-103: open() creates the file or raises
OpenFile(r) ==
    /\ pc[r] = "open"
    /\ \/ /\ files' = files \cup {temp_file_path[r].s}
          /\ pc' = [pc EXCEPT ![r] = "stream"]
          /\ UNCHANGED download_result
       \/ /\ DownloadReturns(r, Pair(FALSE,
                "Failed to save poster file: " \o "Permission denied"))
          /\ UNCHANGED files
    /\ UNCHANGED <<entry, poster_url, temp_file_path, requested, uploads,
                   upload_result, result, warned, dirs, extractVars>>

\* lines 86-91 and the handlers of lines 97-107: the chunks of the response
\* are written to the open file; the file stays whatever the outcome
StreamChunks(r) ==
    /\ pc[r] = "stream"
    /\ \E o \in StreamOutcomes :
         DownloadReturns(r,
           CASE o = "ok" -> Pair(TRUE, temp_file_path[r].s)
             [] o = "RequestException" ->
                  Pair(FALSE, "Poster download request error: " \o "connection reset")
             [] o = "IOError" -> Pair(FALSE, "Failed to save poster file: " \o "No space left")
             [] OTHER -> Pair(FALSE, "Unexpected error: " \o "boom"))
    /\ UNCHANGED <<entry, poster_url, temp_file_path, requested, uploads,
                   upload_result, result, warned, fsVars, extractVars>>

(***************************************************************************)
(* process_poster after the download                                       *)
(***************************************************************************)
\* a return statement inside the try block: the finally clause runs next
Returns(r, res) ==
    /\ result' = [result EXCEPT ![r] = res]
    /\ pc' = [pc EXCEPT ![r] = "cleanup"]

\* variant of AfterDownload: the download's success flag is not looked at
AfterDownloadUnchecked(r) ==
    /\ pc[r] = "dl_done"
    /\ pc' = [pc EXCEPT ![r] = "upload"]
    /\ UNCHANGED <<entry, poster_url, temp_file_path, requested, download_result,
                   uploads, upload_result, result, warned, fsVars, extractVars>>

\* lines 149-152
AfterDownload(r) ==
    /\ pc[r] = "dl_done"
    /\ IF ~download_result[r].ok
       THEN Returns(r, Pair(FALSE, "Failed to download poster: " \o download_result[r].msg))
       ELSE /\ pc' = [pc EXCEPT ![r] = "upload"]
            /\ UNCHANGED result
    /\ UNCHANGED <<entry, poster_url, temp_file_path, requested, download_result,
                   uploads, upload_result, warned, fsVars, extractVars>>

\* lines 156-174 and the handler of lines 176-178
Upload(r) ==
    /\ pc[r] = "upload"
    /\ uploads' = [uploads EXCEPT ![r] = @ + 1]
    /\ \/ \E s \in UploadStrings :
            /\ upload_result' = [upload_result EXCEPT ![r] = PyStr(s)]
            /\ Returns(r, Pair(TRUE, Unwrap(s)))
       \/ /\ upload_result' = [upload_result EXCEPT ![r] = PyStr("HTTP 500")]
          /\ Returns(r, Pair(FALSE, "Failed to upload poster: " \o "HTTP 500"))
       \/ /\ UNCHANGED upload_result
          /\ Returns(r, Pair(FALSE, "Error during poster processing: " \o "boom"))
    /\ UNCHANGED <<entry, poster_url, temp_file_path, requested, download_result,
                   warned, fsVars, extractVars>>

\* variant of CleanupCheck: the temp file is removed on the success path only
CleanupCheckOnSuccess(r) ==
    /\ pc[r] = "cleanup"
    /\ pc' = [pc EXCEPT ![r] =
                IF result[r].ok /\ Truthy(temp_file_path[r]) /\ temp_file_path[r].s \in files
                THEN "remove" ELSE "returned"]
    /\ UNCHANGED <<entry, poster_url, temp_file_path, requested, download_result,
                   uploads, upload_result, result, warned, fsVars, extractVars>>

\* line 182
CleanupCheck(r) ==
    /\ pc[r] = "cleanup"
    /\ pc' = [pc EXCEPT ![r] =
                IF Truthy(temp_file_path[r]) /\ temp_file_path[r].s \in files
                THEN "remove" ELSE "returned"]
    /\ UNCHANGED <<entry, poster_url, temp_file_path, requested, download_result,
                   uploads, upload_result, result, warned, fsVars, extractVars>>

\* variant of Remove: no try around os.remove, its exception leaves process_poster
RemoveUnguarded(r) ==
    /\ pc[r] = "remove"
    /\ \/ /\ temp_file_path[r].s \in files
          /\ files' = files \ {temp_file_path[r].s}
          /\ UNCHANGED <<warned, result>>
       \/ /\ result' = [result EXCEPT ![r] = RaisedOut("PermissionError")]
          /\ UNCHANGED <<files, warned>>
    /\ pc' = [pc EXCEPT ![r] = "returned"]
    /\ UNCHANGED <<entry, poster_url, temp_file_path, requested, download_result,
                   uploads, upload_result, dirs, extractVars>>

\* variant of Remove: a failed os.remove is reported as a failure of the pipeline
RemoveReportsFailure(r) ==
    /\ pc[r] = "remove"
    /\ \/ /\ temp_file_path[r].s \in files
          /\ files' = files \ {temp_file_path[r].s}
          /\ UNCHANGED <<warned, result>>
       \/ /\ warned' = [warned EXCEPT ![r] = TRUE]
          /\ result' = [result EXCEPT ![r] =
                          Pair(FALSE, "Error during poster processing: " \o "Permission denied")]
          /\ UNCHANGED files
    /\ pc' = [pc EXCEPT ![r] = "returned"]
    /\ UNCHANGED <<entry, poster_url, temp_file_path, requested, download_result,
                   uploads, upload_result, dirs, extractVars>>

\* lines 183-187: os.remove either deletes the file or raises, and the
\* exception is swallowed with a warning
Remove(r) ==
    /\ pc[r] = "remove"
    /\ \/ /\ temp_file_path[r].s \in files
          /\ files' = files \ {temp_file_path[r].s}
          /\ UNCHANGED warned
       \/ /\ warned' = [warned EXCEPT ![r] = TRUE]
          /\ UNCHANGED files
    /\ pc' = [pc EXCEPT ![r] = "returned"]
    /\ UNCHANGED <<entry, poster_url, temp_file_path, requested, download_result,
                   uploads, upload_result, result, dirs, extractVars>>

(***************************************************************************)
(* get_poster_url_from_data on its own                                     *)
(***************************************************************************)
ExtractPosterUrl ==
    /\ extracted.kind = "none"
    /\ extracted' = get_poster_url_from_data(pt_gen_data)
    /\ UNCHANGED <<runVars, fsVars, pt_gen_data>>

(***************************************************************************)
(* Specifications                                                          *)
(***************************************************************************)
\* no call is in progress
Quiet == \A q \in Runs : pc[q] = "idle"

Step(r) ==
    \/ DownloadCheckUrl(r)
    \/ HttpGet(r)
    \/ MakeDirs(r)
    \/ OpenFile(r)
    \/ StreamChunks(r)
    \/ AfterDownload(r)
    \/ Upload(r)
    \/ CleanupCheck(r)
    \/ Remove(r)
    \/ Reset(r)

\* the single-threaded program: one call at a time
Next ==
    \E r \in Runs :
       \/ Quiet /\ CallProcessPoster(r)
       \/ Quiet /\ CallGetPosterFromPtGenResponse(r)
       \/ Step(r)

Spec == Init /\ [][Next]_vars

\* callers on two threads: calls of process_poster may overlap
NextConc ==
    \E r \in Runs :
       \/ CallProcessPoster(r)
       \/ Step(r)

SpecConc == Init /\ [][NextConc]_vars

NextExtract == ExtractPosterUrl

SpecExtract == InitExtract /\ [][NextExtract]_vars

(***************************************************************************)
(* Properties                                                              *)
(***************************************************************************)
\* process_poster was entered by run r and has returned
ProcessPosterReturned(r) == pc[r] = "returned" /\ temp_file_path[r] # None

\* C1 as stated: whenever process_poster has returned, whatever the outcome,
\* the temp file the run resolved does not exist.
C1_TempFileGoneAfterRun ==
    \A r \in Runs : ProcessPosterReturned(r) => temp_file_path[r].s \notin files

\* C1 amended: whenever process_poster has returned, whatever the outcome, the
\* temp file the run resolved does not exist unless os.remove raised during
\* cleanup (the warning was printed).
C1_TempFileGoneUnlessRemoveFailed ==
    \A r \in Runs :
       ProcessPosterReturned(r) /\ ~warned[r] => temp_file_path[r].s \notin files

\* a run that downloaded the file, failed to upload it, and returned without it
C1_Witness ==
    \E r \in Runs :
       /\ ProcessPosterReturned(r)
       /\ download_result[r] = Pair(TRUE, temp_file_path[r].s)
       /\ uploads[r] = 1 /\ ~result[r].ok
       /\ ~warned[r]
       /\ temp_file_path[r].s \notin files

\* C2: no exception leaves download_poster and none leaves process_poster: what
\* download_poster hands back is a (bool, str) pair, and so is what
\* process_poster returns, also when os.remove raised during cleanup.
C2_NoExceptionEscapes ==
    \A r \in Runs :
       /\ download_result[r].kind # "raise"
       /\ pc[r] \in {"dl_done", "upload", "cleanup", "remove", "returned"}
             /\ temp_file_path[r] # None
          => download_result[r].kind = "pair"
       /\ temp_file_path[r] # None => result[r].kind # "raise"
       /\ ProcessPosterReturned(r) => result[r].kind = "pair"

\* a run whose upload raised and whose os.remove raised, and which returned a pair
C2_Witness ==
    \E r \in Runs :
       /\ ProcessPosterReturned(r)
       /\ warned[r]
       /\ result[r] = Pair(FALSE, "Error during poster processing: boom")

\* the candidate keys in the priority order the claims state
ClaimOrder == <<"poster", "img", "image", "cover", "posterUrl">>

\* key number i is present with a non-empty value in dict d
NonEmptyAt(d, i) == ClaimOrder[i] \in DOMAIN d /\ d[ClaimOrder[i]].s # ""

\* key number i is the earliest key with a non-empty value in dict d
EarliestAt(d, i) == NonEmptyAt(d, i) /\ \A j \in 1..(i - 1) : ~NonEmptyAt(d, j)

\* C3: for a mapping with a non-empty value under a top-level candidate key,
\* extraction returns the value of the earliest such key, whatever is under 'data'.
C3_TopLevelPriority ==
    extracted.kind # "none" =>
       \A i \in 1..Len(ClaimOrder) :
          EarliestAt(pt_gen_data, i) => extracted = Returned(pt_gen_data[ClaimOrder[i]].s)

\* two top-level keys hold different URLs, 'data' holds a third candidate, and
\* the value of the earlier top-level key came back
C3_Witness ==
    /\ extracted.kind = "value"
    /\ "data" \in DOMAIN pt_gen_data
    /\ pt_gen_data["data"].t = "dict"
    /\ \E i \in 1..Len(ClaimOrder) : NonEmptyAt(pt_gen_data["data"].d, i)
    /\ \E i, j \in 1..Len(ClaimOrder) :
          /\ i < j
          /\ EarliestAt(pt_gen_data, i) /\ NonEmptyAt(pt_gen_data, j)
          /\ pt_gen_data[ClaimOrder[i]] # pt_gen_data[ClaimOrder[j]]
          /\ extracted.val = pt_gen_data[ClaimOrder[i]].s

\* no top-level candidate key of the mapping holds a non-empty value
NoTopLevelMatch(m) == \A i \in 1..Len(ClaimOrder) : ~NonEmptyAt(m, i)

\* the 'data' entry of the mapping is a sub-mapping
HasDataDict(m) == "data" \in DOMAIN m /\ m["data"].t = "dict"

\* C4 as stated: for a mapping without a top-level match, extraction returns the
\* value of the earliest candidate key that is non-empty in the 'data'
\* sub-mapping, and the empty string when there is no such key or no 'data'
\* sub-mapping.
C4_NestedFallback ==
    extracted.kind # "none" /\ NoTopLevelMatch(pt_gen_data) =>
       IF HasDataDict(pt_gen_data)
             /\ \E i \in 1..Len(ClaimOrder) : NonEmptyAt(pt_gen_data["data"].d, i)
       THEN \A i \in 1..Len(ClaimOrder) :
               EarliestAt(pt_gen_data["data"].d, i)
                  => extracted = Returned(pt_gen_data["data"].d[ClaimOrder[i]].s)
       ELSE extracted = Returned("")

\* C5: on success the returned string is the uploader result without its first
\* 5 and last 6 characters when that result starts with '[img]' and ends with
\* '[/img]', and the uploader result itself otherwise; '[img]U[/img]' gives U.
C5_UnwrapMarkup ==
    \A r \in Runs :
       result[r].kind = "pair" /\ result[r].ok =>
          LET u == upload_result[r].s
              s == result[r].msg
              wrapped == /\ Len(u) >= 5 /\ SubSeq(u, 1, 5) = "[img]"
                         /\ Len(u) >= 6 /\ SubSeq(u, Len(u) - 5, Len(u)) = "[/img]"
          IN IF wrapped
             THEN Len(s) = Len(u) - 11 /\ u = "[img]" \o s \o "[/img]"
             ELSE s = u

\* the uploader answered '[img]http://cdn/x.jpg[/img]' and the run returned the bare URL
C5_Witness ==
    \E r \in Runs :
       /\ pc[r] = "returned"
       /\ upload_result[r] = PyStr("[img]http://cdn/x.jpg[/img]")
       /\ result[r] = Pair(TRUE, "http://cdn/x.jpg")

\* C6 as stated: get_poster_url_from_data has no error outcome, whatever the
\* mapping holds under 'data'.
C6_ExtractionNeverRaises == extracted.kind # "raise"

\* C7: download_poster with an empty URL returns the failure 'Poster URL is
\* empty' and has then issued no HTTP request and created no directory or file.
C7_EmptyUrlRefusedFirst ==
    /\ [](\A r \in Runs :
            /\ download_result[r] = Pair(FALSE, "Poster URL is empty") => requested[r] = 0
            /\ poster_url[r].val = "" /\ pc[r] \in {"dl_done", "cleanup", "remove", "returned"}
                  /\ temp_file_path[r] # None
               => download_result[r] = Pair(FALSE, "Poster URL is empty") /\ requested[r] = 0)
    /\ [][\A r \in Runs :
            pc[r] = "dl_check" /\ poster_url[r].val = "" =>
               /\ pc'[r] = "dl_done"
               /\ download_result'[r] = Pair(FALSE, "Poster URL is empty")
               /\ requested' = requested /\ files' = files /\ dirs' = dirs]_vars

\* download_poster has returned 'Poster URL is empty' for the empty URL
C7_Witness ==
    \E r \in Runs :
       /\ pc[r] = "dl_done"
       /\ poster_url[r].val = ""
       /\ download_result[r] = Pair(FALSE, "Poster URL is empty")
       /\ requested[r] = 0

\* C8: within a run the uploader is invoked at most once, only after the
\* downloader returned success and while the temp file is still there; after a
\* failed download it is never invoked and the result is a failure whose
\* message names the download stage.
C8_UploadOnlyAfterDownload ==
    /\ [](\A r \in Runs :
            /\ uploads[r] <= 1
            /\ uploads[r] = 1 => download_result[r].kind = "pair" /\ download_result[r].ok
            /\ download_result[r].kind = "pair" /\ ~download_result[r].ok
                  /\ pc[r] \in {"cleanup", "remove", "returned"}
               => /\ uploads[r] = 0
                  /\ result[r].kind = "pair" /\ ~result[r].ok
                  /\ SubSeq(result[r].msg, 1, 27) = "Failed to download poster: ")
    /\ [][\A r \in Runs :
            /\ uploads'[r] > uploads[r] =>
                  /\ pc[r] = "upload" /\ pc'[r] = "cleanup"
                  /\ download_result[r].ok
                  /\ temp_file_path[r].s \in files
            /\ temp_file_path[r] # None /\ temp_file_path[r].s \in files
                  /\ temp_file_path[r].s \notin files'
               => pc[r] = "remove" /\ uploads'[r] = uploads[r]]_vars

\* a run that downloaded, uploaded once, cleaned up and returned success
C8_Witness ==
    \E r \in Runs :
       /\ pc[r] = "returned"
       /\ uploads[r] = 1
       /\ result[r].ok
       /\ download_result[r].ok
       /\ temp_file_path[r].s \notin files

\* run r has resolved its temp file and has not returned yet
InProgress(r) == pc[r] \notin {"idle", "returned"}

\* C9 as stated: two overlapping runs in the same temp directory work on
\* different temp file paths, so a run about to upload still finds the file it
\* downloaded.
C9_OverlappingRunsUseDistinctFiles ==
    /\ \A r, q \in Runs :
          r # q /\ InProgress(r) /\ InProgress(q)
          => temp_file_path[r] # temp_file_path[q]
    /\ \A r \in Runs : pc[r] = "upload" => temp_file_path[r].s \in files

\* C10: the cleanup, a failed os.remove included, leaves the pair that the
\* download, upload and unwrap steps determined unchanged.
C10_CleanupKeepsResult ==
    [][\A r \in Runs :
         /\ pc[r] \in {"cleanup", "remove"} => result'[r] = result[r]
         /\ warned'[r] /\ ~warned[r] => result'[r] = result[r] /\ pc'[r] = "returned"]_vars

\* os.remove raised after a successful upload and the run still returned success
C10_Witness ==
    \E r \in Runs :
       /\ pc[r] = "returned"
       /\ warned[r]
       /\ result[r].kind = "pair" /\ result[r].ok
       /\ temp_file_path[r].s \in files

====
